---- MODULE Spec2Model ----
(***************************************************************************)
(* A model of vpiotr.py: the document loader of AboutMe.__init__, the tool *)
(* dispatch of AboutMe.handle_tool_call (with the module's tool functions  *)
(* and push), and the conversation loop of AboutMe.chat.                   *)
(*                                                                         *)
(* Python values are tagged records ([type |-> "str", value |-> ...]), so  *)
(* that None, strings, dicts and lists can sit in the same field.  Texts   *)
(* (file names, JSON encodings, notification messages) are sequences of    *)
(* segments.                                                               *)
(***************************************************************************)
EXTENDS Integers, Sequences, FiniteSets, TLC

VARIABLES
    files,      \* os.listdir("about_me"): the listing the loader walks
    loadIdx,    \* position of the loader's for loop in files
    about_me,   \* self.about_me: document key -> text
    pc,         \* where the program is
    messages,   \* chat's local list `messages`: the context sent to the model
    responses,  \* every response the model API has returned in this turn
    results,    \* handle_tool_call's local list `results`
    idx,        \* position of handle_tool_call's for loop in tool_calls
    posts,      \* every requests.post made by push, with its outcome
    returned,   \* the value chat returned
    nextId      \* the next tool-call id the API will issue

vars == <<files, loadIdx, about_me, pc, messages, responses, results, idx,
          posts, returned, nextId>>

loaderVars == <<files, loadIdx, about_me>>
chatVars == <<messages, responses, results, idx, posts, returned, nextId>>

-----------------------------------------------------------------------------
(* Bounds of the model *)

\* Longest directory listing.
MaxFiles == 3
\* Most responses with finish reason "tool_calls" the model gives in a turn.
MaxRounds == 2
\* Most tool calls the model requests in a turn, over all its responses.
MaxCalls == 2

-----------------------------------------------------------------------------
(* Python values *)

PyNone == [type |-> "NoneType"]
PyStr(s) == [type |-> "str", value |-> s]
PyDict(f) == [type |-> "dict", items |-> f]
PyList(s) == [type |-> "list", items |-> s]
PyInt == [type |-> "int"]

EmptyDict == PyDict([k \in {} |-> ""])

-----------------------------------------------------------------------------
(* The document loader: AboutMe.__init__ *)

\* str.endswith
EndsWith(s, suffix) ==
    /\ Len(s) >= Len(suffix)
    /\ SubSeq(s, Len(s) - Len(suffix) + 1, Len(s)) = suffix

\* str.split(sep): the parts between the separators, left to right
RECURSIVE Split(_, _)
Split(s, sep) ==
    IF \E i \in 1..Len(s) : s[i] = sep
    THEN LET i == CHOOSE j \in 1..Len(s) :
                     /\ s[j] = sep
                     /\ \A k \in 1..(j - 1) : s[k] # sep
         IN  <<SubSeq(s, 1, i - 1)>> \o Split(SubSeq(s, i + 1, Len(s)), sep)
    ELSE <<s>>

DocumentKeyLastDot(document) ==
    LET parts == Split(document, ".")
    IN  IF Len(parts) = 1 THEN document
        ELSE SubSeq(document, 1, Len(document) - Len(parts[Len(parts)]) - 1)

\* document.split(".")[0]
DocumentKey(document) == Split(document, ".")[1]

PdfSuffix == <<".", "p", "d", "f">>
TxtSuffix == <<".", "t", "x", "t">>

\* The directory's entries.  DirectoryEntry is a directory whose name ends in
\* .txt: open() raises on it.
ResumePdf == <<"r", ".", "p", "d", "f">>
ResumeTxt == <<"r", ".", "t", "x", "t">>
ResumeV2Txt == <<"r", ".", "v", ".", "t", "x", "t">>
BioTxt == <<"b", ".", "t", "x", "t">>
BioBackup == <<"b", ".", "t", "x", "t", ".", "b">>
BioUpperPdf == <<"b", ".", "P", "D", "F">>
NotesMd == <<"n", ".", "m", "d">>
HiddenTxt == <<".", "t", "x", "t">>
NoDotTxt == <<"r", "t", "x", "t">>
DirectoryEntry == <<"d", ".", "t", "x", "t">>

FileNames ==
    {ResumePdf, ResumeTxt, ResumeV2Txt, BioTxt, BioBackup, BioUpperPdf,
     NotesMd, HiddenTxt, NoDotTxt, DirectoryEntry}

\* What the file system holds: the pages of a PDF and the content of a text
\* file, different for every file.
PdfPages(document) == << <<"page1 of">> \o document, <<"page2 of">> \o document >>
FileContent(document) == <<"content of">> \o document

RECURSIVE Join(_)
Join(parts) ==
    IF parts = <<>> THEN <<>> ELSE Head(parts) \o Join(Tail(parts))

\* "".join([page.extract_text() for page in reader.pages])
PdfText(document) == Join(PdfPages(document))

Readable(document) == document # DirectoryEntry

IsPdf(document) == EndsWith(document, PdfSuffix)
IsTxt(document) == EndsWith(document, TxtSuffix)

\* self.about_me[key] = text
SetItem(d, key, text) ==
    [k \in (DOMAIN d) \cup {key} |-> IF k = key THEN text ELSE d[k]]

\* One pass of the for loop over files
LoadOne(d, document) ==
    IF IsPdf(document) THEN SetItem(d, DocumentKey(document), PdfText(document))
    ELSE IF IsTxt(document)
         THEN SetItem(d, DocumentKey(document), FileContent(document))
         ELSE d

RECURSIVE LoadAll(_, _)
LoadAll(d, listing) ==
    IF listing = <<>> THEN d
    ELSE LoadAll(LoadOne(d, Head(listing)), Tail(listing))

NoDocuments == [k \in {} |-> <<>>]

\* os.listdir returns each entry once, in arbitrary order
Listings ==
    {l \in UNION {[1..n -> FileNames] : n \in 0..MaxFiles} :
        \A i, j \in 1..Len(l) : i # j => l[i] # l[j]}

ChatIdle ==
    /\ messages = <<>>
    /\ responses = <<>>
    /\ results = <<>>
    /\ idx = 1
    /\ posts = <<>>
    /\ returned = PyNone
    /\ nextId = 1

LoadInit ==
    /\ files \in Listings
    /\ loadIdx = 1
    /\ about_me = NoDocuments
    /\ pc = "loading"
    /\ ChatIdle

LoadDocument ==
    /\ pc = "loading"
    /\ loadIdx <= Len(files)
    /\ (IsPdf(files[loadIdx]) \/ IsTxt(files[loadIdx])) => Readable(files[loadIdx])
    /\ about_me' = LoadOne(about_me, files[loadIdx])
    /\ loadIdx' = loadIdx + 1
    /\ UNCHANGED <<files, pc>>
    /\ UNCHANGED chatVars

\* PdfReader or open raises: the constructor fails
LoadFails ==
    /\ pc = "loading"
    /\ loadIdx <= Len(files)
    /\ IsPdf(files[loadIdx]) \/ IsTxt(files[loadIdx])
    /\ ~Readable(files[loadIdx])
    /\ pc' = "startup_failed"
    /\ UNCHANGED loaderVars
    /\ UNCHANGED chatVars

FinishLoading ==
    /\ pc = "loading"
    /\ loadIdx > Len(files)
    /\ pc' = "idle"
    /\ UNCHANGED loaderVars
    /\ UNCHANGED chatVars

LoadNext == LoadDocument \/ LoadFails \/ FinishLoading

LoadSpec == LoadInit /\ [][LoadNext]_vars

-----------------------------------------------------------------------------
(* JSON: json.loads and json.dumps *)

\* An encoded text is a sequence of tokens, each a sequence of strings:
\* <<"{">>, <<"}">>, a member <<key, value>>, or a bare scalar <<"3">>.
Open == <<"{">>
Close == <<"}">>
Obj(members) == <<Open>> \o members \o <<Close>>
Truncated(members) == <<Open>> \o members
Null == << <<"null">> >>

IsObjectText(text) ==
    /\ Len(text) >= 2
    /\ text[1] = Open
    /\ text[Len(text)] = Close
    /\ \A i \in 2..(Len(text) - 1) : Len(text[i]) = 2

IsScalarText(text) ==
    /\ Len(text) = 1
    /\ Len(text[1]) = 1
    /\ text[1][1] \in {"0", "1", "2", "3"}

JSONDecodeError == [type |-> "JSONDecodeError"]

\* json.loads: an object becomes a dict (a repeated key keeps its last value),
\* a number an int, anything else raises
JsonLoads(text) ==
    IF IsObjectText(text)
    THEN LET members == 2..(Len(text) - 1)
             last(k) == CHOOSE i \in members :
                            /\ text[i][1] = k
                            /\ \A j \in members : text[j][1] = k => j <= i
         IN  PyDict([k \in {text[i][1] : i \in members} |-> text[last(k)][2]])
    ELSE IF IsScalarText(text) THEN PyInt
    ELSE JSONDecodeError

RECURSIVE Members(_, _)
Members(f, keys) ==
    IF keys = {} THEN <<>>
    ELSE LET k == CHOOSE x \in keys : TRUE
         IN  << <<k, f[k]>> >> \o Members(f, keys \ {k})

\* json.dumps of a tool's return value
JsonDumps(value) ==
    IF value.type = "NoneType" THEN Null
    ELSE Obj(Members(value.items, DOMAIN value.items))

-----------------------------------------------------------------------------
(* The module's globals: push, the tool functions, the tool schemas *)

\* globals().get(tool_name): a function, another (truthy) object, or None
GlobalsGet(tool_name) ==
    IF tool_name \in {"record_user_details", "record_details", "push"}
    THEN "function"
    ELSE IF tool_name \in {"tools", "record_user_details_json", "record_details_json"}
         THEN "object"
         ELSE "None"

\* The def lines: the parameters without a default, and the defaults
RequiredParams(tool_name) ==
    CASE tool_name = "record_user_details" -> {"conversation_id", "email"}
      [] tool_name = "record_details" -> {"conversation_id", "details"}
      [] tool_name = "push" -> {"message"}

Defaults(tool_name) ==
    CASE tool_name = "record_user_details" ->
             [name |-> "Name not provided", notes |-> "Not provided", details |-> ""]
      [] tool_name = "record_details" -> [questions |-> ""]
      [] tool_name = "push" -> [k \in {} |-> ""]

\* tool(**arguments) binds: every parameter without a default is given and no
\* other keyword is
Binds(tool_name, kwargs) ==
    /\ RequiredParams(tool_name) \subseteq DOMAIN kwargs
    /\ DOMAIN kwargs \subseteq RequiredParams(tool_name) \cup DOMAIN Defaults(tool_name)

Bound(tool_name, kwargs) ==
    [p \in RequiredParams(tool_name) \cup DOMAIN Defaults(tool_name) |->
        IF p \in DOMAIN kwargs THEN kwargs[p] ELSE Defaults(tool_name)[p]]

\* The f-string record_user_details hands to push
UserDetailsMessageNoNotes(a) ==
    <<"New user provided e-mail address: ", a.name, " in conversation ",
      a.conversation_id, "\nEmail: ", a.email, "\nNotes: ", "Not provided",
      "\ndetails (PII removed): ", a.details>>

UserDetailsMessage(a) ==
    <<"New user provided e-mail address: ", a.name, " in conversation ",
      a.conversation_id, "\nEmail: ", a.email, "\nNotes: ", a.notes,
      "\ndetails (PII removed): ", a.details>>

\* The f-string record_details hands to push
DetailsMessage(a) ==
    <<"Details of chat in conversation ", a.conversation_id,
      "\nUnanswered questions: ", a.questions,
      "\ndetails (PII removed): ", a.details>>

\* The message the called function passes to requests.post
PushMessage(tool_name, a) ==
    CASE tool_name = "record_user_details" -> UserDetailsMessage(a)
      [] tool_name = "record_details" -> DetailsMessage(a)
      [] tool_name = "push" -> <<a.message>>

Recorded == PyDict([recorded |-> "ok"])

\* What the called function returns
ReturnValue(tool_name) ==
    IF tool_name = "push" THEN PyNone ELSE Recorded

\* The schemas handed to the model: required and declared properties
SchemaRequired(tool_name) ==
    CASE tool_name = "record_user_details" -> {"conversation_id", "email", "details"}
      [] tool_name = "record_details" -> {"conversation_id", "details"}

SchemaProperties(tool_name) ==
    CASE tool_name = "record_user_details" ->
             {"conversation_id", "email", "name", "notes", "details"}
      [] tool_name = "record_details" -> {"conversation_id", "questions", "details"}

\* The tools list
DeclaredTools == {"record_user_details", "record_details"}

-----------------------------------------------------------------------------
(* One pass of handle_tool_call's for loop *)

UnknownToolResultNone == PyNone

\* result = ... if tool else {}
UnknownToolResult == EmptyDict

\* What the pass does with tool_call when requests.post behaves as postOk says:
\* whether it raises, the posts it makes, and the result it computes
Dispatch(tool_call, postOk) ==
    LET tool_name == tool_call.function.name
        arguments == JsonLoads(tool_call.function.arguments)
        tool == GlobalsGet(tool_name)
        raise == [raised |-> TRUE, posts |-> <<>>, result |-> PyNone]
    IN  IF arguments.type = "JSONDecodeError" THEN raise
        ELSE IF tool = "None"
             THEN [raised |-> FALSE, posts |-> <<>>, result |-> UnknownToolResult]
        ELSE IF tool # "function" THEN raise
        ELSE IF arguments.type # "dict" THEN raise
        ELSE IF ~Binds(tool_name, arguments.items) THEN raise
        ELSE LET a == Bound(tool_name, arguments.items)
                 post == [message |-> PushMessage(tool_name, a), ok |-> postOk]
             IN  [raised |-> ~postOk, posts |-> <<post>>,
                  result |-> ReturnValue(tool_name)]

\* The dict appended to results
ToolMessage(tool_call, result) ==
    [role |-> "tool", content |-> PyStr(JsonDumps(result)),
     tool_call_id |-> tool_call.id]

-----------------------------------------------------------------------------
(* What the model API may answer *)

ConversationId == "42"
Email == "ann@example.com"
Notes == "asked about rates"
Question == "What is your favorite color?"
NotedAnswer == "I've noted that for follow-up."

Member(key, value) == << <<key, value>> >>

FullUserDetails ==
    [name |-> "record_user_details",
     arguments |-> Obj(Member("conversation_id", ConversationId)
                       \o Member("email", Email) \o Member("name", "Ann")
                       \o Member("notes", Notes) \o Member("details", "summary"))]

\* no details (the schema requires it, the function does not) and no notes
UserDetailsWithoutDetails ==
    [name |-> "record_user_details",
     arguments |-> Obj(Member("conversation_id", ConversationId)
                       \o Member("email", "bob@example.com"))]

\* no conversation_id
UserDetailsEmailOnly ==
    [name |-> "record_user_details", arguments |-> Obj(Member("email", Email))]

FullDetails ==
    [name |-> "record_details",
     arguments |-> Obj(Member("conversation_id", ConversationId)
                       \o Member("details", "summary")
                       \o Member("questions", "salary?"))]

\* a key the schema does not declare
DetailsWithExtra ==
    [name |-> "record_details",
     arguments |-> Obj(Member("conversation_id", ConversationId)
                       \o Member("details", "summary") \o Member("mood", "good"))]

UnknownQuestion ==
    [name |-> "record_unknown_question",
     arguments |-> Obj(Member("question", Question))]

\* arguments cut off in the middle
UnknownTruncated ==
    [name |-> "record_unknown_question",
     arguments |-> Truncated(Member("question", Question))]

\* a name that is no declared tool but is a global of the module
PushCall == [name |-> "push", arguments |-> Obj(Member("message", "hello"))]
ToolsCall == [name |-> "tools", arguments |-> Obj(<<>>)]

ModelCalls ==
    {FullUserDetails, UserDetailsWithoutDetails, UserDetailsEmailOnly,
     FullDetails, DetailsWithExtra, UnknownQuestion, UnknownTruncated,
     PushCall, ToolsCall}

Batches(n) == UNION {[1..k -> ModelCalls] : k \in 0..n}


-----------------------------------------------------------------------------
(* The conversation loop: AboutMe.chat *)

\* The listing the constructor of the running program found
InstalledFiles == <<ResumePdf, BioTxt>>

Init ==
    /\ files = InstalledFiles
    /\ loadIdx = Len(InstalledFiles) + 1
    /\ about_me = LoadAll(NoDocuments, InstalledFiles)
    /\ pc = "idle"
    /\ ChatIdle

\* The persona and policy text, then the documents
SystemPrompt == <<"You are acting as Piotr Kowalczyk", about_me>>

\* What the UI calls chat with: a first message with no history, or a later
\* one with the turns before it
PriorHistory ==
    <<[role |-> "user", content |-> PyStr("Hello")],
      [role |-> "assistant", content |-> PyStr("Hello, I am Piotr")]>>
ChatInputs == {<<"Hello", <<>>>>, <<Question, PriorHistory>>}

response == responses[Len(responses)]
tool_calls == response.message.tool_calls.items

\* chat is called: messages = [system] + history + [user]
Chat(message, history) ==
    /\ pc = "idle"
    /\ messages' = <<[role |-> "system", content |-> PyStr(SystemPrompt)]>>
                   \o history
                   \o <<[role |-> "user", content |-> PyStr(message)]>>
    /\ pc' = "awaiting_model_response"
    /\ UNCHANGED <<responses, results, idx, posts, returned, nextId>>
    /\ UNCHANGED loaderVars

\* The ids the API gives the calls of one response: new ones
WithIds(batch) ==
    [i \in 1..Len(batch) |-> [id |-> nextId + i - 1, function |-> batch[i]]]

ToolCallResponses ==
    IF Len(responses) < MaxRounds
    THEN {[finish_reason |-> "tool_calls",
           message |-> [role |-> "assistant", content |-> PyNone,
                        tool_calls |-> t]] :
             t \in {PyNone} \cup {PyList(WithIds(b)) : b \in Batches(MaxCalls + 1 - nextId)}}
    ELSE {}

\* A response that ends the turn; one of them carries a tool call all the same
TerminalResponses ==
    {[finish_reason |-> t[1],
      message |-> [role |-> "assistant", content |-> t[2], tool_calls |-> t[3]]] :
        t \in {<<"stop", PyStr(NotedAnswer), PyNone>>,
                <<"length", PyStr("Piotr is a security"), PyNone>>,
                <<"stop", PyStr(NotedAnswer), PyList(WithIds(<<FullUserDetails>>))>>}}

\* self.openai.chat.completions.create returns
ModelResponds(r) ==
    /\ pc = "awaiting_model_response"
    /\ responses' = Append(responses, r)
    /\ nextId' = IF r.message.tool_calls.type = "list"
                 THEN nextId + Len(r.message.tool_calls.items)
                 ELSE nextId
    /\ pc' = "response_received"
    /\ UNCHANGED <<messages, results, idx, posts, returned>>
    /\ UNCHANGED loaderVars

\* self.openai.chat.completions.create raises
ModelRaises ==
    /\ pc = "awaiting_model_response"
    /\ pc' = "raised"
    /\ UNCHANGED chatVars
    /\ UNCHANGED loaderVars

IsToolCallsLoose(r) == r.finish_reason # "stop"
IsToolCalls(r) == r.finish_reason = "tool_calls"

\* The assistant message appended before the calls are dispatched
BeginToolCallsAppendFirst ==
    /\ pc = "response_received"
    /\ IsToolCalls(response)
    /\ messages' = Append(messages, response.message)
    /\ IF response.message.tool_calls.type = "list"
       THEN /\ pc' = "processing_tool_calls"
            /\ results' = <<>>
            /\ idx' = 1
       ELSE /\ pc' = "raised"
            /\ UNCHANGED <<results, idx>>
    /\ UNCHANGED <<responses, posts, returned, nextId>>
    /\ UNCHANGED loaderVars

\* finish_reason == "tool_calls": handle_tool_call starts
BeginToolCalls ==
    /\ pc = "response_received"
    /\ IsToolCalls(response)
    /\ IF response.message.tool_calls.type = "list"
       THEN /\ pc' = "processing_tool_calls"
            /\ results' = <<>>
            /\ idx' = 1
       ELSE /\ pc' = "raised"
            /\ UNCHANGED <<results, idx>>
    /\ UNCHANGED <<messages, responses, posts, returned, nextId>>
    /\ UNCHANGED loaderVars

\* One pass of handle_tool_call's for loop
DispatchToolCall ==
    /\ pc = "processing_tool_calls"
    /\ idx <= Len(tool_calls)
    /\ \E postOk \in BOOLEAN :
         LET d == Dispatch(tool_calls[idx], postOk)
         IN  /\ posts' = posts \o d.posts
             /\ IF d.raised
                THEN /\ pc' = "raised"
                     /\ UNCHANGED <<results, idx>>
                ELSE /\ results' = Append(results, ToolMessage(tool_calls[idx], d.result))
                     /\ idx' = idx + 1
                     /\ pc' = pc
    /\ UNCHANGED <<messages, responses, returned, nextId>>
    /\ UNCHANGED loaderVars

ExtendNoResults(context, message, toolMessages) ==
    context \o <<message>>

ExtendResultsFirst(context, message, toolMessages) ==
    context \o toolMessages \o <<message>>

\* messages.append(message); messages.extend(results)
Extend(context, message, toolMessages) ==
    context \o <<message>> \o toolMessages

\* The loop left after the first batch of tool calls
FinishToolCallsAndStop ==
    /\ pc = "processing_tool_calls"
    /\ idx > Len(tool_calls)
    /\ messages' = Extend(messages, response.message, results)
    /\ returned' = response.message.content
    /\ pc' = "terminal_answer"
    /\ UNCHANGED <<responses, results, idx, posts, nextId>>
    /\ UNCHANGED loaderVars

\* handle_tool_call returns
FinishToolCalls ==
    /\ pc = "processing_tool_calls"
    /\ idx > Len(tool_calls)
    /\ messages' = Extend(messages, response.message, results)
    /\ pc' = "awaiting_model_response"
    /\ UNCHANGED <<responses, results, idx, posts, returned, nextId>>
    /\ UNCHANGED loaderVars

\* done = True; return response.choices[0].message.content
ReturnAnswer ==
    /\ pc = "response_received"
    /\ ~IsToolCalls(response)
    /\ returned' = response.message.content
    /\ pc' = "terminal_answer"
    /\ UNCHANGED <<messages, responses, results, idx, posts, nextId>>
    /\ UNCHANGED loaderVars

ChatStep == BeginToolCalls \/ DispatchToolCall \/ FinishToolCalls \/ ReturnAnswer

Next ==
    \/ \E input \in ChatInputs : Chat(input[1], input[2])
    \/ \E r \in ToolCallResponses \cup TerminalResponses : ModelResponds(r)
    \/ ModelRaises
    \/ BeginToolCalls
    \/ DispatchToolCall
    \/ FinishToolCalls
    \/ ReturnAnswer

Spec == Init /\ [][Next]_vars

\* The interpreter runs chat's own steps; the model API may never answer
FairSpec == Spec /\ WF_vars(ChatStep)

-----------------------------------------------------------------------------
(* The claims *)

IsPrefix(s, t) == Len(s) <= Len(t) /\ SubSeq(t, 1, Len(s)) = s

\* The tool-role messages of a context that answer the call with this id
ToolMessagesFor(context, id) ==
    {j \in DOMAIN context :
        context[j].role = "tool" /\ context[j].tool_call_id = id}

\* The indices of a context that hold a tool-role message
ToolMessages(context) == {j \in DOMAIN context : context[j].role = "tool"}

\* C1: whenever chat is about to invoke the model again, every tool call of
\* the response before has exactly one tool-role message in the context whose
\* tool_call_id is the call's id.
C1_OneToolMessagePerCall ==
    (pc = "awaiting_model_response" /\ Len(responses) >= 1) =>
        \A i \in 1..Len(tool_calls) :
            Cardinality(ToolMessagesFor(messages, tool_calls[i].id)) = 1

\* A batch of two calls has been answered and the model is invoked again.
C1_Witness ==
    /\ pc = "awaiting_model_response"
    /\ Len(responses) = 1
    /\ Len(tool_calls) = 2

\* C8: a processing_tool_calls step leaves the context as it is until the
\* batch is done and then appends the assistant's message followed by one
\* tool-role message per call, in the order of the calls and with their ids;
\* no step of a turn changes or removes an earlier message.
C8_AppendOnly ==
    /\ [][pc # "idle" => IsPrefix(messages, messages')]_vars
    /\ [][pc = "processing_tool_calls" =>
            IF pc' = "awaiting_model_response"
            THEN /\ Len(messages') = Len(messages) + 1 + Len(tool_calls)
                 /\ messages'[Len(messages) + 1] = response.message
                 /\ \A i \in 1..Len(tool_calls) :
                      /\ messages'[Len(messages) + 1 + i].role = "tool"
                      /\ messages'[Len(messages) + 1 + i].tool_call_id
                           = tool_calls[i].id
            ELSE messages' = messages]_vars

\* Two batches of one call each have been appended.
C8_Witness ==
    /\ pc = "awaiting_model_response"
    /\ Len(responses) = 2
    /\ Len(responses[1].message.tool_calls.items) = 1
    /\ Len(tool_calls) = 1
    /\ Len(messages) >= 6

\* The turn ended because a pass of handle_tool_call raised
DispatchRaised ==
    /\ pc = "raised"
    /\ Len(responses) >= 1
    /\ response.message.tool_calls.type = "list"
    /\ idx <= Len(tool_calls)

\* C9: when the k-th call of a batch fails, the posts made before stay made,
\* the calls after it are not dispatched, the context holds no message of the
\* batch, and the turn is over: nothing more happens, no model invocation.
C9_FailedBatch ==
    /\ [](DispatchRaised =>
            /\ Len(results) = idx - 1
            /\ \A i \in 1..Len(tool_calls) :
                 ToolMessagesFor(messages, tool_calls[i].id) = {}
            /\ \A j \in DOMAIN messages : messages[j] # response.message
            /\ returned = PyNone)
    /\ [][pc = "processing_tool_calls" /\ pc' = "raised" =>
            /\ IsPrefix(posts, posts')
            /\ messages' = messages
            /\ responses' = responses]_vars
    /\ [][pc # "raised"]_vars

\* The first call of a batch of two posted its notification, the second failed.
C9_Witness ==
    /\ DispatchRaised
    /\ Len(tool_calls) = 2
    /\ idx = 2
    /\ Len(posts) >= 1
    /\ posts[1].ok

\* The part of a file name before its first "."
BeforeFirstDot(document) ==
    CHOOSE k \in {SubSeq(document, 1, n) : n \in 0..Len(document)} :
        /\ \A i \in 1..Len(k) : k[i] # "."
        /\ Len(k) = Len(document) \/ document[Len(k) + 1] = "."

Recognized(document) ==
    EndsWith(document, <<".", "p", "d", "f">>) \/ EndsWith(document, <<".", "t", "x", "t">>)

TextOf(document) ==
    IF EndsWith(document, <<".", "p", "d", "f">>)
    THEN PdfPages(document)[1] \o PdfPages(document)[2]
    ELSE FileContent(document)

\* C10: after the loader has walked a listing, the mapping has one entry for
\* each key of a recognized file (.pdf or .txt) and no other, the key being
\* the part of the name before its first "."; an entry holds the text of the
\* last file of the listing with that key.
C10_LoadedDocuments ==
    (pc = "idle") =>
        /\ DOMAIN about_me =
             {BeforeFirstDot(files[i]) : i \in {j \in 1..Len(files) : Recognized(files[j])}}
        /\ \A i \in 1..Len(files) :
             (/\ Recognized(files[i])
              /\ \A j \in (i + 1)..Len(files) :
                   Recognized(files[j]) => BeforeFirstDot(files[j]) # BeforeFirstDot(files[i]))
             => about_me[BeforeFirstDot(files[i])] = TextOf(files[i])

\* Two recognized files share the key "r", the later one has two dots, and a
\* third file is skipped.
C10_Witness ==
    /\ pc = "idle"
    /\ files = <<ResumePdf, NotesMd, ResumeV2Txt>>
    /\ DOMAIN about_me = {<<"r">>}
    /\ about_me[<<"r">>] = FileContent(ResumeV2Txt)

\* A pass of handle_tool_call is about to handle the call `call`
call == tool_calls[idx]
Dispatching == pc = "processing_tool_calls" /\ idx <= Len(tool_calls)

\* The tool-role message of a call whose result is the empty dict
EmptyResultMessage(tool_call) ==
    [role |-> "tool", content |-> PyStr(<<Open, Close>>),
     tool_call_id |-> tool_call.id]

\* The tool-role message of a call answered {"recorded": "ok"}
RecordedMessage(tool_call) ==
    [role |-> "tool", content |-> PyStr(<<Open, <<"recorded", "ok">>, Close>>),
     tool_call_id |-> tool_call.id]

\* C2: a call whose name is not a declared tool gets the empty result: the
\* pass does not raise, makes no post, and adds the tool-role message of {}.
C2_UnknownNameEmptyResult ==
    [][(Dispatching /\ call.function.name \notin {"record_user_details", "record_details"})
        => /\ pc' # "raised"
           /\ posts' = posts
           /\ results' = Append(results, EmptyResultMessage(call))]_vars

\* The arguments are an object the tool's declared schema does not accept
SchemaMismatch(tool_call) ==
    LET arguments == JsonLoads(tool_call.function.arguments)
        tool_name == tool_call.function.name
    IN  /\ arguments.type = "dict"
        /\ \/ ~(SchemaRequired(tool_name) \subseteq DOMAIN arguments.items)
           \/ ~(DOMAIN arguments.items \subseteq SchemaProperties(tool_name))

\* C3: a call of a declared tool whose arguments do not match its schema
\* fails silently: no exception, the empty result, the turn goes on.
C3_SchemaMismatchSilent ==
    [][(/\ Dispatching
        /\ call.function.name \in {"record_user_details", "record_details"}
        /\ SchemaMismatch(call))
        => /\ pc' # "raised"
           /\ results' = Append(results, EmptyResultMessage(call))]_vars

Contains(message, text) == \E i \in DOMAIN message : message[i] = text

\* The model asked for record_unknown_question(question = Question) alone,
\* then gave a terminal response, and chat has returned
C4_Scenario ==
    /\ pc = "terminal_answer"
    /\ Len(responses) = 2
    /\ responses[1].finish_reason = "tool_calls"
    /\ responses[1].message.tool_calls.type = "list"
    /\ Len(responses[1].message.tool_calls.items) = 1
    /\ responses[1].message.tool_calls.items[1].function.name = "record_unknown_question"
    /\ responses[1].message.tool_calls.items[1].function.arguments
         = <<Open, <<"question", Question>>, Close>>
    /\ responses[2].finish_reason # "tool_calls"

\* C4 as stated: in that scenario exactly one notification was sent, with the
\* question in its message, one tool-role message was appended and the
\* terminal content was returned.
C4_NotifiesQuestion ==
    C4_Scenario =>
        /\ Len(posts) = 1
        /\ Contains(posts[1].message, Question)
        /\ Cardinality(ToolMessages(messages)) = 1
        /\ returned = responses[2].message.content

\* C4 amended: in that scenario no notification was sent (the name is no
\* function of the program), exactly one tool-role message was appended, for
\* that call and with the empty result, and the terminal content was returned.
C4_NoNotification ==
    C4_Scenario =>
        /\ posts = <<>>
        /\ Cardinality(ToolMessages(messages)) = 1
        /\ \E j \in DOMAIN messages :
             messages[j] = EmptyResultMessage(responses[1].message.tool_calls.items[1])
        /\ returned = responses[2].message.content

\* The scenario with the terminal text of the spec's example.
C4_Witness ==
    /\ C4_Scenario
    /\ returned = PyStr("I've noted that for follow-up.")

\* A record_user_details call whose arguments parse to an object with email
HasEmail(tool_call) ==
    /\ tool_call.function.name = "record_user_details"
    /\ JsonLoads(tool_call.function.arguments).type = "dict"
    /\ "email" \in DOMAIN JsonLoads(tool_call.function.arguments).items

ArgumentsOf(tool_call) == JsonLoads(tool_call.function.arguments).items

\* The pass makes exactly one post, whose message holds the call's email and,
\* when the call gives notes, the notes
PostsEmailAndNotes(tool_call) ==
    /\ Len(posts') = Len(posts) + 1
    /\ IsPrefix(posts, posts')
    /\ Contains(posts'[Len(posts')].message, ArgumentsOf(tool_call).email)
    /\ "notes" \in DOMAIN ArgumentsOf(tool_call)
         => Contains(posts'[Len(posts')].message, ArgumentsOf(tool_call).notes)

\* C5 as stated: every record_user_details call with an email sends one
\* notification with the email and the notes and is answered {"recorded": "ok"}.
C5_EmailSuffices ==
    [][(Dispatching /\ HasEmail(call))
        => /\ PostsEmailAndNotes(call)
           /\ posts'[Len(posts')].ok
           /\ results' = Append(results, RecordedMessage(call))]_vars

\* C5 amended: a record_user_details call with conversation_id and email and
\* no undeclared field makes exactly one notification call, with the email and
\* the notes in its message, and is answered {"recorded": "ok"} unless that
\* call raises (then the pass raises).
C5_EmailAndConversationId ==
    [][(/\ Dispatching
        /\ HasEmail(call)
        /\ "conversation_id" \in DOMAIN ArgumentsOf(call)
        /\ DOMAIN ArgumentsOf(call)
             \subseteq {"conversation_id", "email", "name", "notes", "details"})
        => /\ PostsEmailAndNotes(call)
           /\ IF posts'[Len(posts')].ok
              THEN /\ results' = Append(results, RecordedMessage(call))
                   /\ pc' = "processing_tool_calls"
              ELSE pc' = "raised"]_vars

\* A call with email, notes and conversation_id was dispatched: its
\* notification went out and its acknowledgment is in results.
C5_Witness ==
    /\ pc = "processing_tool_calls"
    /\ idx = 2
    /\ HasEmail(tool_calls[1])
    /\ "notes" \in DOMAIN ArgumentsOf(tool_calls[1])
    /\ Len(posts) = 1
    /\ posts[1].ok
    /\ Contains(posts[1].message, "asked about rates")
    /\ results = <<RecordedMessage(tool_calls[1])>>

\* C6: chat returns exactly on a response whose finish reason is not
\* "tool_calls": it then returns the response's content and dispatches
\* nothing, even if the response carries tool calls; on "tool_calls" it does
\* not return; and when the first response is terminal no notification has
\* been sent.
C6_TerminalAnswer ==
    /\ [](pc = "terminal_answer" =>
            /\ response.finish_reason # "tool_calls"
            /\ returned = response.message.content
            /\ Len(responses) = 1 => posts = <<>>)
    /\ [][pc = "response_received" =>
            IF response.finish_reason # "tool_calls"
            THEN /\ pc' = "terminal_answer"
                 /\ returned' = response.message.content
                 /\ posts' = posts
                 /\ messages' = messages
            ELSE pc' # "terminal_answer"]_vars
    /\ [][pc' = "terminal_answer" => pc = "response_received"]_vars

\* The first response was terminal and carried a tool call; chat returned its
\* content and nothing was posted.
C6_Witness ==
    /\ pc = "terminal_answer"
    /\ Len(responses) = 1
    /\ response.message.tool_calls.type = "list"
    /\ returned = response.message.content
    /\ posts = <<>>

\* chat is at one of its own steps: it has a response to look at or a batch
\* of tool calls to work through
ChatRunning ==
    pc = "response_received" \/ pc = "processing_tool_calls"

====
